---- MODULE Spec2Model ----
(***************************************************************************)
(* State-machine model of the HR/accounting admin panel.                   *)
(*   src/hra2.py : sign-up with e-mail code, administrator approval,       *)
(*                 session gate, persistence gateway (execute_query)       *)
(*   src/hra.py  : the six entity screens (list / create), gateway,        *)
(*                 bulk import                                             *)
(* The hosted table store is modelled as one sequence of rows per table,   *)
(* in insertion order.  Python None / SQL NULL is the string NULL, an      *)
(* optional value is a sequence of length 0 or 1, a string of decimal      *)
(* digits is the sequence of its digits.                                   *)
(***************************************************************************)
EXTENDS Integers, Sequences, FiniteSets, TLC

VARIABLES
    users,      \* the store's `users` table
    session,    \* st.session_state of every browser session
    tables,     \* the store's entity tables, by table name
    listed,     \* per session: the rows the list tab fetched in its last render
    last        \* the last handler that ran, its inputs and what it returned

vars == <<users, session, tables, listed, last>>

NULL == "NULL"

(***************************************************************************)
(* Bounds of the model                                                     *)
(***************************************************************************)
MaxUsers == 2       \* rows of the users table (the seeded administrator included)
MaxRows == 2        \* rows over all entity tables together
MaxCalcRows == 1    \* the same, where the numeric form inputs range over 0..MaxAmount
MaxAmount == 2      \* largest number typed into a numeric form field

(***************************************************************************)
(* Input domains                                                           *)
(***************************************************************************)
AdminEmail == "admin@hra.com"
Emails == {"a@b.com", "c@d.com"}
BadEmail == "a.b.com"                       \* fails validate_email
KnownEmails == Emails \cup {AdminEmail}      \* pass validate_email
AdminPassword == "admin1234"
Passwords == {"abcd1234", "wxyz5678"}
KnownPasswords == Passwords \cup {AdminPassword}   \* pass validate_password
WeakPassword == "abcd"                      \* fails validate_password
Names == {"Kim"}
Times == {"t1"}                             \* values of datetime.now().isoformat()
Sessions == {"s1", "s2"}

(***************************************************************************)
(* Result messages (the source's user-facing texts, by the spec's names)   *)
(***************************************************************************)
DuplicateEmail == "DuplicateEmail"
RegisterOk == "RegisterOk"
CodeMismatch == "CodeMismatch"
VerifyOk == "VerifyOk"
EmailUnverified == "EmailUnverified"
PendingApproval == "PendingApproval"
Rejected == "Rejected"
UnknownStatus == "UnknownStatus"
InvalidCredentials == "InvalidCredentials"
FormIncomplete == "FormIncomplete"
BadEmailFormat == "BadEmailFormat"
PasswordMismatch == "PasswordMismatch"
WeakPasswordMsg == "WeakPassword"
BadCodeLength == "BadCodeLength"
UnknownEmail == "UnknownEmail"

(***************************************************************************)
(* The table store: equality-filtered select / update, insert              *)
(***************************************************************************)
Matches(row, filters) == \A k \in DOMAIN filters : row[k] = filters[k]

SelectEq(t, filters) == SelectSeq(t, LAMBDA row : Matches(row, filters))

Overwrite(row, data) ==
    [k \in DOMAIN row |-> IF k \in DOMAIN data THEN data[k] ELSE row[k]]

UpdateEq(t, data, filters) ==
    [i \in 1..Len(t) |-> IF Matches(t[i], filters) THEN Overwrite(t[i], data) ELSE t[i]]

\* insert into users: the store fills id (serial) and leaves the columns the
\* code does not send NULL
InsertUser(t, data) ==
    Append(t, data @@ [id |-> Len(t) + 1, approved_at |-> NULL, last_login |-> NULL])

(***************************************************************************)
(* Pure helpers of the authentication code                                 *)
(***************************************************************************)
\* hashlib.sha256(password.encode()).hexdigest(), tabulated on the model's passwords
hash_password(password) ==
    CASE password = "abcd1234" ->
             "e9cee71ab932fde863338d08be4de9dfe39ea049bdafb342ce659ec5450b69ae"
      [] password = "wxyz5678" ->
             "cfb3600d67fe5cc4a01c6aa6fd70bcaca73e030557015fefcee82af4907c19c4"
      [] password = "admin1234" ->
             "ac9689e2272427085e35b9d3e3e8bed88cb3434828b43b86fc0596cad4c6e270"
      [] password = "abcd" ->
             "88d4266fd4e6338d13b845fcf289579d209c897823b9217da3e161936f031589"
      [] OTHER ->
             "e3b0c44298fc1c149afbf4c8996fb92427ae41e4649b934ca495991b7852b855"

\* the e-mail regular expression, decided on the model's e-mail inputs
validate_email(email) == email \in KnownEmails

\* at least 8 characters, a letter and a digit, decided on the model's passwords
validate_password(password) == password \in KnownPasswords

CodeLen == 6
RandBelow == 10
\* the sequences of secrets.randbelow(10) results the model draws from
RandomDraws == {[i \in 1..CodeLen |-> (k * i) % RandBelow] : k \in {1, 3}}

\* a code generator that joins one digit too few
generate_verification_code_short(draw) == [i \in 1..(CodeLen - 1) |-> draw[i]]

generate_verification_code(draw) == [i \in 1..CodeLen |-> draw[i]]

WrongCode == <<0, 0, 0, 0, 0, 0>>
ShortCode == <<1, 2, 3>>
IssuedCodes == {generate_verification_code(d) : d \in RandomDraws}

(***************************************************************************)
(* register_user, verify_email_code, login_user, resend_verification_code  *)
(* Each returns what the function returns plus the users table it leaves.  *)
(***************************************************************************)
\* register_user without its duplicate check
register_user_no_duplicate_check(us, email, password, name, draw) ==
    LET verification_code == generate_verification_code(draw)
        data == [email |-> email, name |-> name, verification_code |-> verification_code,
                 password_hash |-> hash_password(password), role |-> "user",
                 status |-> "pending", email_verified |-> FALSE]
    IN [users |-> InsertUser(us, data), success |-> TRUE, msg |-> RegisterOk,
        code |-> verification_code]

register_user(us, email, password, name, draw) ==
    IF SelectEq(us, [email |-> email]) # <<>>
    THEN [users |-> us, success |-> FALSE, msg |-> DuplicateEmail, code |-> <<>>]
    ELSE LET verification_code == generate_verification_code(draw)
             data == [email |-> email, name |-> name,
                      verification_code |-> verification_code,
                      password_hash |-> hash_password(password), role |-> "user",
                      status |-> "pending", email_verified |-> FALSE]
         IN [users |-> InsertUser(us, data), success |-> TRUE, msg |-> RegisterOk,
             code |-> verification_code]

\* verify_email_code that looks the account up by e-mail alone
verify_email_code_any_code(us, email, code) ==
    IF SelectEq(us, [email |-> email]) # <<>>
    THEN [users |-> UpdateEq(us, [email_verified |-> TRUE], [email |-> email]),
          success |-> TRUE, msg |-> VerifyOk]
    ELSE [users |-> us, success |-> FALSE, msg |-> CodeMismatch]

verify_email_code(us, email, code) ==
    IF SelectEq(us, [email |-> email, verification_code |-> code]) # <<>>
    THEN [users |-> UpdateEq(us, [email_verified |-> TRUE], [email |-> email]),
          success |-> TRUE, msg |-> VerifyOk]
    ELSE [users |-> us, success |-> FALSE, msg |-> CodeMismatch]

\* login_user as src/hra.py has it: no verification or approval gate
login_user_ungated(us, email, password, now) ==
    LET result == SelectEq(us, [email |-> email,
                                password_hash |-> hash_password(password)])
    IN IF result # <<>>
       THEN [users |-> UpdateEq(us, [last_login |-> now], [email |-> email]),
             success |-> TRUE, msg |-> NULL, user |-> <<result[1]>>]
       ELSE [users |-> us, success |-> FALSE, msg |-> InvalidCredentials, user |-> <<>>]

\* login_user that tests for rejected before it tests for pending, and lets the
\* pending test fall through to the unknown-status branch
login_user_no_pending_test(us, email, password, now) ==
    LET result == SelectEq(us, [email |-> email,
                                password_hash |-> hash_password(password)])
    IN IF result # <<>>
       THEN LET user == result[1]
            IN IF ~user.email_verified
               THEN [users |-> us, success |-> FALSE, msg |-> EmailUnverified, user |-> <<>>]
               ELSE IF user.status = "rejected"
               THEN [users |-> us, success |-> FALSE, msg |-> Rejected, user |-> <<>>]
               ELSE IF user.status # "approved"
               THEN [users |-> us, success |-> FALSE, msg |-> UnknownStatus, user |-> <<>>]
               ELSE [users |-> UpdateEq(us, [last_login |-> now], [email |-> email]),
                     success |-> TRUE, msg |-> NULL, user |-> <<user>>]
       ELSE [users |-> us, success |-> FALSE, msg |-> InvalidCredentials, user |-> <<>>]

\* login_user that stamps last_login as soon as the credentials match
login_user_stamp_first(us, email, password, now) ==
    LET result == SelectEq(us, [email |-> email,
                                password_hash |-> hash_password(password)])
        stamped == UpdateEq(us, [last_login |-> now], [email |-> email])
    IN IF result # <<>>
       THEN LET user == result[1]
            IN IF ~user.email_verified
               THEN [users |-> stamped, success |-> FALSE, msg |-> EmailUnverified,
                     user |-> <<>>]
               ELSE IF user.status = "pending"
               THEN [users |-> stamped, success |-> FALSE, msg |-> PendingApproval,
                     user |-> <<>>]
               ELSE IF user.status = "rejected"
               THEN [users |-> stamped, success |-> FALSE, msg |-> Rejected, user |-> <<>>]
               ELSE IF user.status # "approved"
               THEN [users |-> stamped, success |-> FALSE, msg |-> UnknownStatus,
                     user |-> <<>>]
               ELSE [users |-> stamped, success |-> TRUE, msg |-> NULL, user |-> <<user>>]
       ELSE [users |-> us, success |-> FALSE, msg |-> InvalidCredentials, user |-> <<>>]

\* login_user that tests the status before it tests email_verified
login_user_status_first(us, email, password, now) ==
    LET result == SelectEq(us, [email |-> email,
                                password_hash |-> hash_password(password)])
    IN IF result # <<>>
       THEN LET user == result[1]
            IN IF user.status = "pending"
               THEN [users |-> us, success |-> FALSE, msg |-> PendingApproval, user |-> <<>>]
               ELSE IF user.status = "rejected"
               THEN [users |-> us, success |-> FALSE, msg |-> Rejected, user |-> <<>>]
               ELSE IF user.status # "approved"
               THEN [users |-> us, success |-> FALSE, msg |-> UnknownStatus, user |-> <<>>]
               ELSE IF ~user.email_verified
               THEN [users |-> us, success |-> FALSE, msg |-> EmailUnverified, user |-> <<>>]
               ELSE [users |-> UpdateEq(us, [last_login |-> now], [email |-> email]),
                     success |-> TRUE, msg |-> NULL, user |-> <<user>>]
       ELSE [users |-> us, success |-> FALSE, msg |-> InvalidCredentials, user |-> <<>>]

login_user(us, email, password, now) ==
    LET result == SelectEq(us, [email |-> email,
                                password_hash |-> hash_password(password)])
    IN IF result # <<>>
       THEN LET user == result[1]
            IN IF ~user.email_verified
               THEN [users |-> us, success |-> FALSE, msg |-> EmailUnverified, user |-> <<>>]
               ELSE IF user.status = "pending"
               THEN [users |-> us, success |-> FALSE, msg |-> PendingApproval, user |-> <<>>]
               ELSE IF user.status = "rejected"
               THEN [users |-> us, success |-> FALSE, msg |-> Rejected, user |-> <<>>]
               ELSE IF user.status # "approved"
               THEN [users |-> us, success |-> FALSE, msg |-> UnknownStatus, user |-> <<>>]
               ELSE [users |-> UpdateEq(us, [last_login |-> now], [email |-> email]),
                     success |-> TRUE, msg |-> NULL, user |-> <<user>>]
       ELSE [users |-> us, success |-> FALSE, msg |-> InvalidCredentials, user |-> <<>>]

\* a resend that asks for a new verification as well
resend_verification_code_unverifying(us, email, draw) ==
    LET new_code == generate_verification_code(draw)
    IN IF SelectEq(us, [email |-> email]) # <<>>
       THEN [users |-> UpdateEq(us, [verification_code |-> new_code,
                                     email_verified |-> FALSE], [email |-> email]),
             success |-> TRUE, code |-> new_code]
       ELSE [users |-> us, success |-> FALSE, code |-> <<>>]

\* a resend that shows a new code and leaves the stored one
resend_verification_code_not_stored(us, email, draw) ==
    LET new_code == generate_verification_code(draw)
    IN IF SelectEq(us, [email |-> email]) # <<>>
       THEN [users |-> us, success |-> TRUE, code |-> new_code]
       ELSE [users |-> us, success |-> FALSE, code |-> <<>>]

resend_verification_code(us, email, draw) ==
    LET new_code == generate_verification_code(draw)
    IN IF SelectEq(us, [email |-> email]) # <<>>
       THEN [users |-> UpdateEq(us, [verification_code |-> new_code], [email |-> email]),
             success |-> TRUE, code |-> new_code]
       ELSE [users |-> us, success |-> FALSE, code |-> <<>>]

(***************************************************************************)
(* Persistence gateway: execute_query(table_name, operation, data, filters)*)
(* A missing filters argument and an empty dict are both the empty         *)
(* function NoFilters.  store_ok says whether the store accepts the        *)
(* request or raises.  The result is what the function returns (None, or   *)
(* the rows of response.data), the text it shows with st.error, and the    *)
(* tables it leaves.                                                       *)
(***************************************************************************)
NoFilters == <<>>
ReturnNone == [none |-> TRUE, rows |-> <<>>]
ReturnRows(rows) == [none |-> FALSE, rows |-> rows]
NoError == "NoError"
StoreError == "StoreError"                          \* str(e) of a store exception
UpdateNeedsFilters == "Update operation requires filters"
DeleteNeedsFilters == "Delete operation requires filters"

\* Python truthiness of what execute_query returned
Truthy(ret) == ~ret.none /\ ret.rows # <<>>

DeleteEq(t, filters) == SelectSeq(t, LAMBDA row : ~Matches(row, filters))

\* execute_query whose update and delete run without the filter test
execute_query_unguarded(tbls, table_name, operation, data, filters, store_ok) ==
    IF ~store_ok
    THEN [tables |-> tbls, ret |-> ReturnNone, shown |-> StoreError]
    ELSE CASE operation = "select" ->
                 [tables |-> tbls, ret |-> ReturnRows(SelectEq(tbls[table_name], filters)),
                  shown |-> NoError]
           [] operation = "insert" ->
                 [tables |-> [tbls EXCEPT ![table_name] = Append(@, data)],
                  ret |-> ReturnRows(<<data>>), shown |-> NoError]
           [] operation = "update" ->
                 [tables |-> [tbls EXCEPT ![table_name] = UpdateEq(@, data, filters)],
                  ret |-> ReturnRows(SelectEq(UpdateEq(tbls[table_name], data, filters),
                                              filters)),
                  shown |-> NoError]
           [] operation = "delete" ->
                 [tables |-> [tbls EXCEPT ![table_name] = DeleteEq(@, filters)],
                  ret |-> ReturnRows(SelectEq(tbls[table_name], filters)), shown |-> NoError]

\* execute_query whose insert writes the row twice
execute_query_double_insert(tbls, table_name, operation, data, filters, store_ok) ==
    IF operation = "insert" /\ store_ok
    THEN [tables |-> [tbls EXCEPT ![table_name] = Append(Append(@, data), data)],
          ret |-> ReturnRows(<<data>>), shown |-> NoError]
    ELSE execute_query_unguarded(tbls, table_name, operation, data, filters, store_ok)

execute_query(tbls, table_name, operation, data, filters, store_ok) ==
    CASE operation = "select" ->
             IF store_ok
             THEN [tables |-> tbls, ret |-> ReturnRows(SelectEq(tbls[table_name], filters)),
                   shown |-> NoError]
             ELSE [tables |-> tbls, ret |-> ReturnNone, shown |-> StoreError]
      [] operation = "insert" ->
             IF store_ok
             THEN [tables |-> [tbls EXCEPT ![table_name] = Append(@, data)],
                   ret |-> ReturnRows(<<data>>), shown |-> NoError]
             ELSE [tables |-> tbls, ret |-> ReturnNone, shown |-> StoreError]
      [] operation = "update" ->
             IF DOMAIN filters = {}
             THEN [tables |-> tbls, ret |-> ReturnNone, shown |-> UpdateNeedsFilters]
             ELSE IF store_ok
             THEN [tables |-> [tbls EXCEPT ![table_name] = UpdateEq(@, data, filters)],
                   ret |-> ReturnRows(SelectEq(UpdateEq(tbls[table_name], data, filters),
                                               filters)),
                   shown |-> NoError]
             ELSE [tables |-> tbls, ret |-> ReturnNone, shown |-> StoreError]
      [] operation = "delete" ->
             IF DOMAIN filters = {}
             THEN [tables |-> tbls, ret |-> ReturnNone, shown |-> DeleteNeedsFilters]
             ELSE IF store_ok
             THEN [tables |-> [tbls EXCEPT ![table_name] = DeleteEq(@, filters)],
                   ret |-> ReturnRows(SelectEq(tbls[table_name], filters)),
                   shown |-> NoError]
             ELSE [tables |-> tbls, ret |-> ReturnNone, shown |-> StoreError]

(***************************************************************************)
(* Session state                                                           *)
(***************************************************************************)
SignedOut ==
    [logged_in |-> FALSE, user_email |-> NULL, user_name |-> NULL,
     user_role |-> NULL, user_status |-> NULL]

\* a logout that leaves the role in the session
logout_user_keeps_role(st) == [SignedOut EXCEPT !.user_role = st.user_role]

logout_user(st) == SignedOut

\* main(): the authentication page is what a session that is not logged in gets
OnAuthPage(s) == ~session[s].logged_in

\* a user management that every logged-in session reaches
OnUserManagement_any_role(s) == session[s].logged_in

\* main() and user_management(): the menu entry and the page need role admin
OnUserManagement(s) == session[s].logged_in /\ session[s].user_role = "admin"

(***************************************************************************)
(* Initial state: the users table holds the administrator the operator     *)
(* seeded; every entity table is empty; nobody is logged in.               *)
(***************************************************************************)
SeedAdmin ==
    [id |-> 1, approved_at |-> NULL, last_login |-> NULL, email |-> AdminEmail,
     name |-> "Admin", verification_code |-> WrongCode,
     password_hash |-> hash_password(AdminPassword), role |-> "admin",
     status |-> "approved", email_verified |-> TRUE]

TableNames == {"employees", "payroll", "clients", "sales", "purchases", "trade_transactions"}

NoOp == [op |-> "none"]
NothingListed == [rows |-> <<>>, table |-> NULL]

Init ==
    /\ users = <<SeedAdmin>>
    /\ session = [s \in Sessions |-> SignedOut]
    /\ tables = [t \in TableNames |-> <<>>]
    /\ listed = [s \in Sessions |-> NothingListed]
    /\ last = NoOp

(***************************************************************************)
(* show_auth_page: the login, register, verify and resend forms            *)
(***************************************************************************)
Login(s, email, password, now) ==
    /\ OnAuthPage(s)
    /\ IF email = "" \/ password = ""
       THEN /\ last' = [success |-> FALSE, msg |-> FormIncomplete, op |-> "login",
                        called |-> FALSE]
            /\ UNCHANGED <<users, session>>
       ELSE IF ~validate_email(email)
       THEN /\ last' = [success |-> FALSE, msg |-> BadEmailFormat, op |-> "login",
                        called |-> FALSE]
            /\ UNCHANGED <<users, session>>
       ELSE LET r == login_user(users, email, password, now)
            IN /\ users' = r.users
               /\ session' = IF r.success
                             THEN [session EXCEPT ![s] =
                                      [logged_in |-> TRUE,
                                       user_email |-> r.user[1].email,
                                       user_name |-> r.user[1].name,
                                       user_role |-> r.user[1].role,
                                       user_status |-> r.user[1].status]]
                             ELSE session
               /\ last' = [success |-> r.success, msg |-> r.msg, op |-> "login",
                           called |-> TRUE]
    /\ UNCHANGED <<tables, listed>>

Register(s, name, email, password, confirm, draw) ==
    /\ OnAuthPage(s)
    /\ IF name = "" \/ email = "" \/ password = ""
       THEN /\ last' = [success |-> FALSE, msg |-> FormIncomplete, code |-> <<>>,
                        op |-> "register", called |-> FALSE]
            /\ UNCHANGED users
       ELSE IF ~validate_email(email)
       THEN /\ last' = [success |-> FALSE, msg |-> BadEmailFormat, code |-> <<>>,
                        op |-> "register", called |-> FALSE]
            /\ UNCHANGED users
       ELSE IF password # confirm
       THEN /\ last' = [success |-> FALSE, msg |-> PasswordMismatch, code |-> <<>>,
                        op |-> "register", called |-> FALSE]
            /\ UNCHANGED users
       ELSE IF ~validate_password(password)
       THEN /\ last' = [success |-> FALSE, msg |-> WeakPasswordMsg, code |-> <<>>,
                        op |-> "register", called |-> FALSE]
            /\ UNCHANGED users
       ELSE LET r == register_user(users, email, password, name, draw)
            IN /\ Len(r.users) <= MaxUsers
               /\ users' = r.users
               /\ last' = [success |-> r.success, msg |-> r.msg, code |-> r.code,
                           op |-> "register", called |-> TRUE]
    /\ UNCHANGED <<session, tables, listed>>

VerifyEmail(s, email, code) ==
    /\ OnAuthPage(s)
    /\ IF email = "" \/ code = <<>>
       THEN /\ last' = [success |-> FALSE, msg |-> FormIncomplete, op |-> "verify",
                        called |-> FALSE]
            /\ UNCHANGED users
       ELSE IF Len(code) # CodeLen
       THEN /\ last' = [success |-> FALSE, msg |-> BadCodeLength, op |-> "verify",
                        called |-> FALSE]
            /\ UNCHANGED users
       ELSE LET r == verify_email_code(users, email, code)
            IN /\ users' = r.users
               /\ last' = [success |-> r.success, msg |-> r.msg, op |-> "verify",
                           called |-> TRUE]
    /\ UNCHANGED <<session, tables, listed>>

ResendCode(s, email, draw) ==
    /\ OnAuthPage(s)
    /\ IF email = ""
       THEN /\ last' = [success |-> FALSE, msg |-> FormIncomplete, code |-> <<>>,
                        op |-> "resend", called |-> FALSE]
            /\ UNCHANGED users
       ELSE LET r == resend_verification_code(users, email, draw)
            IN /\ users' = r.users
               /\ last' = [success |-> r.success,
                           msg |-> IF r.success THEN NULL ELSE UnknownEmail,
                           code |-> r.code, op |-> "resend", called |-> TRUE]
    /\ UNCHANGED <<session, tables, listed>>

(***************************************************************************)
(* main(): the logout button                                               *)
(***************************************************************************)
Logout(s) ==
    /\ session[s].logged_in
    /\ session' = [session EXCEPT ![s] = logout_user(session[s])]
    /\ last' = [op |-> "logout"]
    /\ UNCHANGED <<users, tables, listed>>

(***************************************************************************)
(* user_management(): approve / reject a listed account, change a role     *)
(***************************************************************************)
\* a tab 1 that offers every account
pending_users_unfiltered(us) == SelectEq(us, <<>>)

\* a tab 1 that offers the pending accounts, verified or not
pending_users_any_verification(us) == SelectEq(us, [status |-> "pending"])

\* tab 1: the accounts offered for a decision
pending_users(us) == SelectEq(us, [status |-> "pending", email_verified |-> TRUE])

\* tab 3: the accounts offered for a role change
role_users(us) == SelectEq(us, [status |-> "approved"])

\* an approval that is written only while the account is still pending
approve_update_if_pending(us, id, now) ==
    UpdateEq(us, [approved_at |-> now, status |-> "approved"],
             [id |-> id, status |-> "pending"])

approve_update(us, id, now) ==
    UpdateEq(us, [approved_at |-> now, status |-> "approved"], [id |-> id])

\* a rejection that stamps the time the way the approval does
reject_update_with_time(us, id) ==
    UpdateEq(us, [approved_at |-> "t1", status |-> "rejected"], [id |-> id])

reject_update(us, id) == UpdateEq(us, [status |-> "rejected"], [id |-> id])

role_update(us, selected_user, new_role) ==
    UpdateEq(us, [role |-> new_role], [email |-> selected_user])

Approve(s, i, now) ==
    /\ OnUserManagement(s)
    /\ i \in 1..Len(pending_users(users))
    /\ LET user == pending_users(users)[i]
       IN /\ users' = approve_update(users, user.id, now)
          /\ last' = [id |-> user.id, op |-> "approve"]
    /\ UNCHANGED <<session, tables, listed>>

Reject(s, i) ==
    /\ OnUserManagement(s)
    /\ i \in 1..Len(pending_users(users))
    /\ LET user == pending_users(users)[i]
       IN /\ users' = reject_update(users, user.id)
          /\ last' = [id |-> user.id, op |-> "reject"]
    /\ UNCHANGED <<session, tables, listed>>

SetRole(s, i, new_role) ==
    /\ OnUserManagement(s)
    /\ i \in 1..Len(role_users(users))
    /\ LET selected_user == role_users(users)[i].email
       IN /\ users' = role_update(users, selected_user, new_role)
          /\ last' = [email |-> selected_user, op |-> "set_role"]
    /\ UNCHANGED <<session, tables, listed>>

(***************************************************************************)
(* Entity screens of src/hra.py: what each create form sends to the        *)
(* gateway.  float(x) keeps the value of a number, str(date) is the ISO    *)
(* text of the date picked.                                                *)
(***************************************************************************)
Today == <<2024, 1, 15>>
date_str(d) == IF d = <<2024, 1, 15>> THEN "2024-01-15" ELSE "0001-01-01"

MissingRequiredField == "MissingRequiredField"
Created == "Created"
InsertFailed == "InsertFailed"

\* a required-field test that also refuses an employee number already stored
employee_missing_or_taken(f) ==
    \/ f.employee_code = "" \/ f.name = ""
    \/ \E k \in 1..Len(tables["employees"]) :
           tables["employees"][k].employee_code = f.employee_code

employee_missing(f) == f.employee_code = "" \/ f.name = ""
employee_data(f) ==
    [email |-> f.email, name |-> f.name, status |-> f.status,
     employee_code |-> f.employee_code, department |-> f.department,
     position |-> f.position, hire_date |-> date_str(f.hire_date), salary |-> f.salary,
     phone |-> f.phone]

payroll_missing(f) == f.employee_code = ""

\* a net salary that is never let below zero
payroll_data_floored(f) ==
    LET net == f.base_salary + f.bonus - f.deduction
        net_salary == IF net < 0 THEN 0 ELSE net
    IN [employee_code |-> f.employee_code, base_salary |-> f.base_salary, bonus |-> f.bonus,
        deduction |-> f.deduction, net_salary |-> net_salary,
        payment_date |-> date_str(f.payment_date), remarks |-> f.remarks]

payroll_data(f) ==
    LET net_salary == f.base_salary + f.bonus - f.deduction
    IN [employee_code |-> f.employee_code, base_salary |-> f.base_salary, bonus |-> f.bonus,
        deduction |-> f.deduction, net_salary |-> net_salary,
        payment_date |-> date_str(f.payment_date), remarks |-> f.remarks]

client_missing(f) == f.client_code = "" \/ f.client_name = ""
client_data(f) ==
    [email |-> f.email, phone |-> f.phone, client_code |-> f.client_code,
     client_name |-> f.client_name, business_type |-> f.business_type,
     country |-> f.country, contact_person |-> f.contact_person, address |-> f.address]

\* a required-field test that forgets the product name
sales_missing_no_product(f) == f.sales_no = "" \/ f.client_code = ""

sales_missing(f) == f.sales_no = "" \/ f.client_code = "" \/ f.product_name = ""
sales_data(f) ==
    LET amount == f.quantity * f.unit_price
    IN [remarks |-> f.remarks, client_code |-> f.client_code, sales_no |-> f.sales_no,
        product_name |-> f.product_name, amount |-> amount, quantity |-> f.quantity,
        unit_price |-> f.unit_price, sales_date |-> date_str(f.sales_date),
        currency |-> f.currency, payment_status |-> f.payment_status]

purchase_missing(f) == f.purchase_no = "" \/ f.supplier_code = "" \/ f.product_name = ""
purchase_data(f) ==
    LET amount == f.quantity * f.unit_price
    IN [remarks |-> f.remarks, product_name |-> f.product_name, amount |-> amount,
        quantity |-> f.quantity, unit_price |-> f.unit_price, currency |-> f.currency,
        payment_status |-> f.payment_status, purchase_no |-> f.purchase_no,
        supplier_code |-> f.supplier_code, purchase_date |-> date_str(f.purchase_date)]

trade_missing(f) == f.transaction_no = "" \/ f.client_code = "" \/ f.product_name = ""

\* a won amount converted from the unit price instead of the amount
trade_data_rate_on_price(f) ==
    LET amount == f.quantity * f.unit_price
        krw_amount == f.unit_price * f.exchange_rate
    IN [remarks |-> f.remarks, client_code |-> f.client_code,
        product_name |-> f.product_name, amount |-> amount, quantity |-> f.quantity,
        unit_price |-> f.unit_price, currency |-> f.currency,
        transaction_no |-> f.transaction_no, krw_amount |-> krw_amount,
        exchange_rate |-> f.exchange_rate, transaction_type |-> f.transaction_type,
        transaction_date |-> date_str(f.transaction_date),
        customs_status |-> f.customs_status, bl_no |-> f.bl_no]

trade_data(f) ==
    LET amount == f.quantity * f.unit_price
        krw_amount == amount * f.exchange_rate
    IN [remarks |-> f.remarks, client_code |-> f.client_code,
        product_name |-> f.product_name, amount |-> amount, quantity |-> f.quantity,
        unit_price |-> f.unit_price, currency |-> f.currency,
        transaction_no |-> f.transaction_no, krw_amount |-> krw_amount,
        exchange_rate |-> f.exchange_rate, transaction_type |-> f.transaction_type,
        transaction_date |-> date_str(f.transaction_date),
        customs_status |-> f.customs_status, bl_no |-> f.bl_no]

\* main(): the entity screens are reached by a session that is logged in
OnWorkflowScreen(s) == session[s].logged_in

RowCount(tbls) == Len(tbls["employees"]) + Len(tbls["payroll"]) + Len(tbls["clients"])
                      + Len(tbls["sales"]) + Len(tbls["purchases"])
                      + Len(tbls["trade_transactions"])

\* the list tab: df = execute_query(table)
fetch_list(tbls, table_name) ==
    execute_query(tbls, table_name, "select", <<>>, NoFilters, TRUE).ret.rows

\* a list tab that shows at most the first row
fetch_list_first_row(tbls, table_name) ==
    SubSeq(execute_query(tbls, table_name, "select", <<>>, NoFilters, TRUE).ret.rows, 1, 1)

\* One run of a screen's script on form submit: the list tab fetches, the form
\* is checked, one insert is made, and a truthy result reruns the script, which
\* fetches the list again.  cap bounds the rows of the model.
SubmitCreate(s, table_name, missing, data, store_ok, cap) ==
    /\ OnWorkflowScreen(s)
    /\ IF missing
       THEN /\ tables' = tables
            /\ listed' = [listed EXCEPT ![s] = [rows |-> fetch_list(tables, table_name),
                                                table |-> table_name]]
            /\ last' = [data |-> <<>>, result |-> MissingRequiredField, op |-> "create",
                        table |-> table_name]
       ELSE LET r == execute_query(tables, table_name, "insert", data, NoFilters, store_ok)
            IN /\ RowCount(r.tables) <= cap
               /\ tables' = r.tables
               /\ listed' = [listed EXCEPT ![s] =
                                [rows |-> IF Truthy(r.ret)
                                          THEN fetch_list(r.tables, table_name)
                                          ELSE fetch_list(tables, table_name),
                                 table |-> table_name]]
               /\ last' = [data |-> IF Truthy(r.ret) THEN <<data>> ELSE <<>>,
                           result |-> IF Truthy(r.ret) THEN Created ELSE InsertFailed,
                           op |-> "create", table |-> table_name]
    /\ UNCHANGED <<users, session>>

CreateEmployee(s, f, store_ok, cap) ==
    SubmitCreate(s, "employees", employee_missing(f), employee_data(f), store_ok, cap)

CreatePayroll(s, f, store_ok, cap) ==
    SubmitCreate(s, "payroll", payroll_missing(f), payroll_data(f), store_ok, cap)

CreateClient(s, f, store_ok, cap) ==
    SubmitCreate(s, "clients", client_missing(f), client_data(f), store_ok, cap)

CreateSales(s, f, store_ok, cap) ==
    SubmitCreate(s, "sales", sales_missing(f), sales_data(f), store_ok, cap)

CreatePurchase(s, f, store_ok, cap) ==
    SubmitCreate(s, "purchases", purchase_missing(f), purchase_data(f), store_ok, cap)

CreateTrade(s, f, store_ok, cap) ==
    SubmitCreate(s, "trade_transactions", trade_missing(f), trade_data(f), store_ok, cap)

\* opening a screen renders its list tab
List(s, table_name) ==
    /\ OnWorkflowScreen(s)
    /\ listed' = [listed EXCEPT ![s] = [rows |-> fetch_list(tables, table_name),
                                        table |-> table_name]]
    /\ last' = [op |-> "list", table |-> table_name]
    /\ UNCHANGED <<users, session, tables>>

\* a direct call of the gateway's update or delete
GatewayWrite(table_name, operation, data, filters, store_ok) ==
    /\ operation \in {"update", "delete"}
    /\ LET r == execute_query(tables, table_name, operation, data, filters, store_ok)
       IN /\ tables' = r.tables
          /\ last' = [ret |-> r.ret, shown |-> r.shown, op |-> operation,
                      table |-> table_name, filtered |-> DOMAIN filters # {}]
    /\ UNCHANGED <<users, session, listed>>

(***************************************************************************)
(* Specification of the authentication flow: one browser session           *)
(***************************************************************************)
AuthSessions == {"s1"}

\* what is typed into the forms: the inputs the forms let through to the
\* functions behind them
LoginInputs == KnownEmails \X KnownPasswords

RegisterInputs ==
    {<<n, e, "abcd1234", "abcd1234">> : n \in Names, e \in KnownEmails}
        \cup {<<"Kim", "a@b.com", "wxyz5678", "wxyz5678">>}

VerifyInputs == KnownEmails \X (IssuedCodes \cup {WrongCode})

ResendInputs == KnownEmails

Next ==
    \/ \E s \in AuthSessions, f \in LoginInputs, now \in Times :
           Login(s, f[1], f[2], now)
    \/ \E s \in AuthSessions, f \in RegisterInputs, d \in RandomDraws :
           Register(s, f[1], f[2], f[3], f[4], d)
    \/ \E s \in AuthSessions, f \in VerifyInputs : VerifyEmail(s, f[1], f[2])
    \/ \E s \in AuthSessions, e \in ResendInputs, d \in RandomDraws : ResendCode(s, e, d)
    \/ \E s \in AuthSessions : Logout(s)
    \/ \E s \in AuthSessions, i \in 1..MaxUsers, now \in Times : Approve(s, i, now)
    \/ \E s \in AuthSessions, i \in 1..MaxUsers : Reject(s, i)
    \/ \E s \in AuthSessions, i \in 1..MaxUsers, r \in {"user", "admin"} : SetRole(s, i, r)

Spec == Init /\ [][Next]_vars

(***************************************************************************)
(* Specification of the entity screens: one logged-in session creates,     *)
(* lists, and the gateway's update and delete are called directly          *)
(***************************************************************************)
LoggedInAs(a) ==
    [logged_in |-> TRUE, user_email |-> a.email, user_name |-> a.name,
     user_role |-> a.role, user_status |-> a.status]

InitCrud ==
    /\ users = <<SeedAdmin>>
    /\ session = [s \in Sessions |-> IF s = "s1" THEN LoggedInAs(SeedAdmin) ELSE SignedOut]
    /\ tables = [t \in TableNames |-> <<>>]
    /\ listed = [s \in Sessions |-> NothingListed]
    /\ last = NoOp

\* what is typed into the create forms: K the texts of the required fields,
\* N the numbers of the numeric fields
EmployeeForms(K) ==
    [email : {""}, name : K \cap {"", "Hong"}, status : {"active"},
     employee_code : K \cap {"", "EMP001"}, department : {"Sales", "HR"},
     position : {"Manager"}, hire_date : {Today}, salary : {3000000}, phone : {""}]

PayrollForms(K, N) ==
    [employee_code : K \cap {"", "EMP001"}, base_salary : N, bonus : N, deduction : N,
     payment_date : {Today}, remarks : {""}]

ClientForms(K) ==
    [email : {""}, phone : {""}, client_code : K \cap {"", "CLI001"},
     client_name : K \cap {"", "ABC Trading"}, business_type : {""}, country : {"USA"},
     contact_person : {""}, address : {""}]

SalesForms(K, N) ==
    [remarks : {""}, client_code : K \cap {"", "CLI001"},
     sales_no : K \cap {"", "S2024001"}, product_name : K \cap {"", "Parts"}, quantity : N,
     unit_price : N, sales_date : {Today}, currency : {"KRW", "USD"},
     payment_status : {"unpaid"}]

PurchaseForms(K, N) ==
    [remarks : {""}, product_name : K \cap {"", "Parts"}, quantity : N, unit_price : N,
     currency : {"KRW"}, payment_status : {"unpaid"}, purchase_no : K \cap {"", "P2024001"},
     supplier_code : K \cap {"", "CLI001"}, purchase_date : {Today}]

TradeForms(K, N) ==
    [remarks : {""}, client_code : K \cap {"", "CLI001"},
     product_name : K \cap {"", "Parts"}, quantity : N, unit_price : N, currency : {"USD"},
     transaction_no : K \cap {"", "T2024001"}, exchange_rate : N,
     transaction_type : {"export", "import"}, transaction_date : {Today},
     customs_status : {"declared"}, bl_no : {""}]

AnyText == {"", "EMP001", "Hong", "CLI001", "ABC Trading", "S2024001", "P2024001",
            "T2024001", "Parts"}
FilledText == AnyText \ {""}
OneNumber == {MaxAmount}
Numbers == 0..MaxAmount

\* the calls made of the gateway's update and delete: unfiltered on every table,
\* and filtered by the business key
KeyFilter(table_name) ==
    CASE table_name = "employees" -> [employee_code |-> "EMP001"]
      [] table_name = "payroll" -> [employee_code |-> "EMP001"]
      [] table_name = "clients" -> [client_code |-> "CLI001"]
      [] table_name = "sales" -> [sales_no |-> "S2024001"]
      [] table_name = "purchases" -> [purchase_no |-> "P2024001"]
      [] table_name = "trade_transactions" -> [transaction_no |-> "T2024001"]

UpdateData(table_name) ==
    CASE table_name = "employees" -> [status |-> "terminated"]
      [] table_name = "payroll" -> [remarks |-> "paid"]
      [] table_name = "clients" -> [country |-> "Korea"]
      [] table_name = "sales" -> [payment_status |-> "paid"]
      [] table_name = "purchases" -> [payment_status |-> "paid"]
      [] table_name = "trade_transactions" -> [customs_status |-> "cleared"]

NextCrud ==
    \/ \E f \in EmployeeForms(AnyText), ok \in BOOLEAN :
           CreateEmployee("s1", f, ok, MaxRows)
    \/ \E f \in PayrollForms(AnyText, OneNumber), ok \in BOOLEAN :
           CreatePayroll("s1", f, ok, MaxRows)
    \/ \E f \in ClientForms(AnyText), ok \in BOOLEAN :
           CreateClient("s1", f, ok, MaxRows)
    \/ \E f \in SalesForms(AnyText, OneNumber), ok \in BOOLEAN :
           CreateSales("s1", f, ok, MaxRows)
    \/ \E f \in PurchaseForms(AnyText, OneNumber), ok \in BOOLEAN :
           CreatePurchase("s1", f, ok, MaxRows)
    \/ \E f \in TradeForms(AnyText, OneNumber), ok \in BOOLEAN :
           CreateTrade("s1", f, ok, MaxRows)
    \/ \E t \in TableNames : List("s1", t)

SpecCrud == InitCrud /\ [][NextCrud]_vars

(***************************************************************************)
(* Specification of the gateway's update and delete: rows are created in   *)
(* two of the tables, and update and delete are called on every table,     *)
(* with and without filters, the store accepting or raising                *)
(***************************************************************************)
NextGateway ==
    \/ \E f \in EmployeeForms(FilledText) : CreateEmployee("s1", f, TRUE, MaxRows)
    \/ \E f \in SalesForms(FilledText, OneNumber) : CreateSales("s1", f, TRUE, MaxRows)
    \/ \E t \in TableNames, op \in {"update", "delete"}, ok \in BOOLEAN :
           \E flt \in {NoFilters, KeyFilter(t)} :
               GatewayWrite(t, op, UpdateData(t), flt, ok)

SpecGateway == InitCrud /\ [][NextGateway]_vars

(***************************************************************************)
(* Specification of the derived fields: the four forms with numeric fields,*)
(* every number of 0..MaxAmount typed into them, the store accepting       *)
(***************************************************************************)
NextCalc ==
    \/ \E f \in PayrollForms(FilledText, Numbers) :
           CreatePayroll("s1", f, TRUE, MaxCalcRows)
    \/ \E f \in SalesForms(FilledText, Numbers) :
           CreateSales("s1", f, TRUE, MaxCalcRows)
    \/ \E f \in PurchaseForms(FilledText, Numbers) :
           CreatePurchase("s1", f, TRUE, MaxCalcRows)
    \/ \E f \in TradeForms(FilledText, Numbers) :
           CreateTrade("s1", f, TRUE, MaxCalcRows)

SpecCalc == InitCrud /\ [][NextCalc]_vars

(***************************************************************************)
(* Filtered lists of src/hra.py.  A text is searched the way pandas'       *)
(* str.contains(pat, na=False) searches it: pat is a regular expression    *)
(* given to re.search, case-sensitive.  chars gives the characters of the  *)
(* texts of the model; of the characters that are special in a regular     *)
(* expression the texts hold only the dot, which stands for any character. *)
(***************************************************************************)
chars(text) ==
    CASE text = "" -> <<>>
      [] text = "H" -> <<"H">>
      [] text = "Hong" -> <<"H", "o", "n", "g">>
      [] text = "Hana" -> <<"H", "a", "n", "a">>
      [] text = "hong" -> <<"h", "o", "n", "g">>
      [] text = "H.n" -> <<"H", ".", "n">>
      [] text = "HR" -> <<"H", "R">>
      [] text = "Sales" -> <<"S", "a", "l", "e", "s">>
      [] text = "Design" -> <<"D", "e", "s", "i", "g", "n">>
      [] text = "S.l" -> <<"S", ".", "l">>
      [] text = "ABC Trading" -> <<"A", "B", "C", " ", "T", "r", "a", "d", "i", "n", "g">>
      [] text = "ABC" -> <<"A", "B", "C">>
      [] text = "abc" -> <<"a", "b", "c">>
      [] text = "USA" -> <<"U", "S", "A">>
      [] text = "U.A" -> <<"U", ".", "A">>
      [] text = "Korea" -> <<"K", "o", "r", "e", "a">>

\* the pattern matches the text from position k on
match_at(pat, text, k) ==
    \A i \in 1..Len(pat) : pat[i] = "." \/ pat[i] = text[k + i - 1]

\* re.search whose dot is an ordinary character
re_search_literal(pat, text) ==
    \E k \in 1..(Len(text) - Len(pat) + 1) :
        \A i \in 1..Len(pat) : pat[i] = text[k + i - 1]

re_search(pat, text) ==
    \E k \in 1..(Len(text) - Len(pat) + 1) : match_at(pat, text, k)

\* Series.str.contains(pat, na=False) for one value of the column
str_contains(value, pat) == re_search(chars(pat), chars(value))

\* the options of the status selectbox of the employee list
AllStatuses == "all"
StatusOptions == {"active", "terminated"}

\* the employee list tab: fetch, then filter in memory
employee_list(tbls, search_name, search_dept, search_status) ==
    LET df == fetch_list(tbls, "employees")
        keep(r) ==
            /\ search_name # "" => str_contains(r.name, search_name)
            /\ search_dept # "" => str_contains(r.department, search_dept)
            /\ search_status # AllStatuses => r.status = search_status
    IN SelectSeq(df, keep)

\* the client list tab
client_list(tbls, search_name, search_country) ==
    LET df == fetch_list(tbls, "clients")
        keep(r) ==
            /\ search_name # "" => str_contains(r.client_name, search_name)
            /\ search_country # "" => str_contains(r.country, search_country)
    IN SelectSeq(df, keep)

ListEmployees(s, search_name, search_dept, search_status) ==
    /\ OnWorkflowScreen(s)
    /\ listed' = [listed EXCEPT ![s] =
                     [rows |-> employee_list(tables, search_name, search_dept, search_status),
                      table |-> "employees"]]
    /\ last' = [op |-> "filter", table |-> "employees",
                search |-> <<search_name, search_dept, search_status>>]
    /\ UNCHANGED <<users, session, tables>>

ListClients(s, search_name, search_country) ==
    /\ OnWorkflowScreen(s)
    /\ listed' = [listed EXCEPT ![s] =
                     [rows |-> client_list(tables, search_name, search_country),
                      table |-> "clients"]]
    /\ last' = [op |-> "filter", table |-> "clients",
                search |-> <<search_name, search_country>>]
    /\ UNCHANGED <<users, session, tables>>

(***************************************************************************)
(* Specification of the filtered lists: employees and clients are created  *)
(* and the two list tabs are rendered with every choice of search texts    *)
(***************************************************************************)
ListedEmployeeForms ==
    [email : {""}, name : {"Hong", "Hana"}, status : StatusOptions,
     employee_code : {"EMP001"}, department : {"Sales", "HR"}, position : {"Manager"},
     hire_date : {Today}, salary : {3000000}, phone : {""}]

ListedClientForms ==
    [email : {""}, phone : {""}, client_code : {"CLI001"}, client_name : {"ABC Trading"},
     business_type : {""}, country : {"USA", "Korea"}, contact_person : {""}, address : {""}]

NameSearches == {"", "Hong", "H", "hong", "H.n"}
DeptSearches == {"", "HR", "Design", "S.l"}
ClientSearches == {"", "ABC", "abc"}
CountrySearches == {"", "USA", "U.A"}

NextList ==
    \/ \E f \in ListedEmployeeForms : CreateEmployee("s1", f, TRUE, MaxRows)
    \/ \E f \in ListedClientForms : CreateClient("s1", f, TRUE, MaxRows)
    \/ \E n \in NameSearches, d \in DeptSearches, st \in StatusOptions \cup {AllStatuses} :
           ListEmployees("s1", n, d, st)
    \/ \E n \in ClientSearches, c \in CountrySearches : ListClients("s1", n, c)

SpecList == InitCrud /\ [][NextList]_vars

(***************************************************************************)
(* Bulk import: upload_excel_data(uploaded_file, table_name,               *)
(* column_mapping).  A file is the sheet pd.read_excel reads or fails to   *)
(* read; a sheet row holds one cell per header; a cell is a text or NaN.   *)
(* The sheets of the model have the employee template's headers for the    *)
(* employee number, the name and the hire date.                            *)
(***************************************************************************)
NaN == "NaN"                    \* a missing cell
NaT == <<>>                     \* the missing date
DateTexts == {"2024/01/15"}     \* the cell texts pd.to_datetime parses
UploadError == "UploadError"    \* st.error of upload_excel_data

\* df.rename(columns=column_mapping) of the employee upload
rename_employee_columns(row) ==
    [name |-> row.h_name, employee_code |-> row.h_code, hire_date |-> row.h_hire_date]

\* pd.to_datetime of one cell: raises on a text that is no date
to_datetime_raises(cell) == cell # NaN /\ cell \notin DateTexts
to_datetime(cell) == IF cell = NaN THEN NaT ELSE Today

\* .dt.strftime('%Y-%m-%d')
strftime(d) == IF d = NaT THEN NaN ELSE date_str(d)

\* df.fillna('')
fillna(cell) == IF cell = NaN THEN "" ELSE cell

\* a loop that stops at the first insert that returns nothing
RECURSIVE insert_records_until_failure(_, _, _, _)
insert_records_until_failure(tbls, table_name, records, oks) ==
    IF records = <<>>
    THEN [tables |-> tbls, success_count |-> 0, inserts |-> <<>>]
    ELSE LET result == execute_query(tbls, table_name, "insert", Head(records),
                                     NoFilters, Head(oks))
             rest == IF Truthy(result.ret)
                     THEN insert_records_until_failure(result.tables, table_name,
                                                       Tail(records), Tail(oks))
                     ELSE [tables |-> result.tables, success_count |-> 0, inserts |-> <<>>]
         IN [tables |-> rest.tables,
             success_count |-> (IF Truthy(result.ret) THEN 1 ELSE 0) + rest.success_count,
             inserts |-> <<Head(records)>> \o rest.inserts]

\* the loop over the records: one insert each, in order, counting the truthy results
RECURSIVE insert_records(_, _, _, _)
insert_records(tbls, table_name, records, oks) ==
    IF records = <<>>
    THEN [tables |-> tbls, success_count |-> 0, inserts |-> <<>>]
    ELSE LET result == execute_query(tbls, table_name, "insert", Head(records),
                                     NoFilters, Head(oks))
             rest == insert_records(result.tables, table_name, Tail(records), Tail(oks))
         IN [tables |-> rest.tables,
             success_count |-> (IF Truthy(result.ret) THEN 1 ELSE 0) + rest.success_count,
             inserts |-> <<Head(records)>> \o rest.inserts]

\* an import whose loop lets the failure of an insert reach the except branch
upload_excel_data_insert_raises(tbls, file, table_name, oks) ==
    IF ~file.readable
    THEN [tables |-> tbls, shown |-> UploadError, success_count |-> 0, inserts |-> <<>>,
          total |-> 0]
    ELSE LET df == [i \in 1..Len(file.sheet) |-> rename_employee_columns(file.sheet[i])]
         IN IF \E i \in 1..Len(df) : to_datetime_raises(df[i].hire_date)
            THEN [tables |-> tbls, shown |-> UploadError, success_count |-> 0,
                  inserts |-> <<>>, total |-> 0]
            ELSE LET records ==
                         [i \in 1..Len(df) |->
                             [name |-> fillna(df[i].name),
                              employee_code |-> fillna(df[i].employee_code),
                              hire_date |-> fillna(strftime(to_datetime(df[i].hire_date)))]]
                     done == insert_records_until_failure(tbls, table_name, records, oks)
                 IN IF \E i \in 1..Len(oks) : ~oks[i]
                    THEN [tables |-> done.tables, shown |-> UploadError,
                          success_count |-> 0, inserts |-> done.inserts, total |-> 0]
                    ELSE [tables |-> done.tables, shown |-> NoError,
                          success_count |-> done.success_count,
                          inserts |-> done.inserts, total |-> Len(records)]

\* oks[i] tells whether the store accepts the i-th insert
upload_excel_data(tbls, file, table_name, oks) ==
    IF ~file.readable
    THEN [tables |-> tbls, shown |-> UploadError, success_count |-> 0, inserts |-> <<>>,
          total |-> 0]
    ELSE LET df == [i \in 1..Len(file.sheet) |-> rename_employee_columns(file.sheet[i])]
         IN IF \E i \in 1..Len(df) : to_datetime_raises(df[i].hire_date)
            THEN [tables |-> tbls, shown |-> UploadError, success_count |-> 0,
                  inserts |-> <<>>, total |-> 0]
            ELSE LET records ==
                         [i \in 1..Len(df) |->
                             [name |-> fillna(df[i].name),
                              employee_code |-> fillna(df[i].employee_code),
                              hire_date |-> fillna(strftime(to_datetime(df[i].hire_date)))]]
                     done == insert_records(tbls, table_name, records, oks)
                 IN [tables |-> done.tables, shown |-> NoError,
                     success_count |-> done.success_count, inserts |-> done.inserts,
                     total |-> Len(records)]

\* the upload tab of the employee screen: the button runs the import and a
\* success count above zero reruns the script, whose list tab fetches again
ImportEmployees(s, file, oks, cap) ==
    /\ OnWorkflowScreen(s)
    /\ Len(oks) = Len(file.sheet)
    /\ LET r == upload_excel_data(tables, file, "employees", oks)
       IN /\ RowCount(r.tables) <= cap
          /\ tables' = r.tables
          /\ listed' = [listed EXCEPT ![s] =
                           [rows |-> IF r.success_count > 0
                                     THEN fetch_list(r.tables, "employees")
                                     ELSE fetch_list(tables, "employees"),
                            table |-> "employees"]]
          /\ last' = [shown |-> r.shown, op |-> "import", table |-> "employees",
                      oks |-> oks, success_count |-> r.success_count, inserts |-> r.inserts,
                      file |-> file, total |-> r.total]
    /\ UNCHANGED <<users, session>>

(***************************************************************************)
(* Specification of the bulk import: every sheet of at most MaxSheetRows   *)
(* rows is uploaded to the employees table, the store accepting or         *)
(* refusing each insert                                                    *)
(***************************************************************************)
MaxSheetRows == 2       \* rows of an uploaded sheet
MaxImportRows == 3      \* rows of the employees table

SheetRows == [h_name : {"Hong"}, h_code : {"EMP001"}, h_hire_date : {"2024/01/15", "soon", NaN}]

Sheets == UNION {[1..n -> SheetRows] : n \in 0..MaxSheetRows}

Files == {[readable |-> TRUE, sheet |-> sh] : sh \in Sheets}
             \cup {[readable |-> FALSE, sheet |-> <<>>]}

NextImport ==
    \E file \in Files : \E oks \in [1..Len(file.sheet) -> BOOLEAN] :
        ImportEmployees("s1", file, oks, MaxImportRows)

SpecImport == InitCrud /\ [][NextImport]_vars

(***************************************************************************)
(* main(): the gate and the menu.  One run of the script renders the       *)
(* authentication page for a session that is not logged in; otherwise it   *)
(* builds the menu and routes to the page of the entry chosen.             *)
(***************************************************************************)
WorkflowPages == {"dashboard", "employees", "payroll", "clients", "sales_purchases", "trade"}
UserManagementPage == "user_management"
AuthPage == "auth"
AdminOnlyNotice == "admin_only"

\* a menu that offers the user management to every role
menu_items_for_all(st) == WorkflowPages \cup {UserManagementPage}

menu_items(st) ==
    WorkflowPages \cup (IF st.user_role = "admin" THEN {UserManagementPage} ELSE {})

\* what main() renders for the menu entry chosen
main(st, menu) ==
    IF ~st.logged_in THEN AuthPage
    ELSE IF menu = UserManagementPage
         THEN IF st.user_role # "admin" THEN AdminOnlyNotice ELSE UserManagementPage
         ELSE menu

(***************************************************************************)
(* user_management() tab 1 when several sessions use the store: a run of   *)
(* the script selects the pending accounts and renders a pair of buttons   *)
(* for each; the run that handles a click has made its own select and      *)
(* updates the account of the clicked row by id.  Other sessions' calls    *)
(* of the store may come between the select and the update.                *)
(***************************************************************************)
SelectPending(s) ==
    /\ main(session[s], UserManagementPage) = UserManagementPage
    /\ UserManagementPage \in menu_items(session[s])
    /\ listed' = [listed EXCEPT ![s] = [rows |-> pending_users(users), table |-> "users"]]
    /\ last' = [op |-> "select_pending", by |-> s]
    /\ UNCHANGED <<users, session, tables>>

ClickApprove(s, i, now) ==
    /\ main(session[s], UserManagementPage) = UserManagementPage
    /\ UserManagementPage \in menu_items(session[s])
    /\ listed[s].table = "users"
    /\ i \in 1..Len(listed[s].rows)
    /\ LET user == listed[s].rows[i]
       IN /\ users' = approve_update(users, user.id, now)
          /\ last' = [id |-> user.id, op |-> "click_approve", by |-> s]
    /\ listed' = [listed EXCEPT ![s] = NothingListed]
    /\ UNCHANGED <<session, tables>>

ClickReject(s, i) ==
    /\ main(session[s], UserManagementPage) = UserManagementPage
    /\ UserManagementPage \in menu_items(session[s])
    /\ listed[s].table = "users"
    /\ i \in 1..Len(listed[s].rows)
    /\ LET user == listed[s].rows[i]
       IN /\ users' = reject_update(users, user.id)
          /\ last' = [id |-> user.id, op |-> "click_reject", by |-> s]
    /\ listed' = [listed EXCEPT ![s] = NothingListed]
    /\ UNCHANGED <<session, tables>>

(***************************************************************************)
(* Specification of two browser sessions on one store: one account         *)
(* registers and verifies; either session logs in as the administrator or  *)
(* as that account, lists employees, selects the pending accounts, clicks  *)
(* approve or reject, changes a role, logs out                             *)
(***************************************************************************)
Applicant == <<"Kim", "a@b.com", "abcd1234", "abcd1234">>
ApplicantDraws == {d \in RandomDraws : d[1] = 1}
SessionLogins == {AdminEmail, Applicant[2]} \X {AdminPassword, Applicant[3]}

NextSessions ==
    \/ \E s \in Sessions, f \in SessionLogins, now \in Times : Login(s, f[1], f[2], now)
    \/ \E s \in Sessions, d \in ApplicantDraws :
           Register(s, Applicant[1], Applicant[2], Applicant[3], Applicant[4], d)
    \/ \E s \in Sessions, d \in ApplicantDraws :
           VerifyEmail(s, Applicant[2], generate_verification_code(d))
    \/ \E s \in Sessions : Logout(s)
    \/ \E s \in Sessions : List(s, "employees")
    \/ \E s \in Sessions : SelectPending(s)
    \/ \E s \in Sessions, i \in 1..MaxUsers, now \in Times : ClickApprove(s, i, now)
    \/ \E s \in Sessions, i \in 1..MaxUsers : ClickReject(s, i)
    \/ \E s \in Sessions, i \in 1..MaxUsers, r \in {"user", "admin"} : SetRole(s, i, r)

SpecSessions == Init /\ [][NextSessions]_vars

(***************************************************************************)
(* Specification of the login form over the rows the users table can hold: *)
(* next to the administrator there is one account whose status,            *)
(* email_verified and role are whatever was written to the store (the      *)
(* status column is free text, login_user has a branch for a status that   *)
(* is none of pending, rejected, approved)                                 *)
(***************************************************************************)
StoredStatuses == {"pending", "approved", "rejected", "suspended"}

StoredAccount(status, email_verified, role) ==
    [SeedAdmin EXCEPT !.id = 2, !.email = "a@b.com", !.name = "Kim",
                      !.verification_code = <<1, 2, 3, 4, 5, 6>>,
                      !.password_hash = hash_password("abcd1234"),
                      !.role = role, !.status = status,
                      !.email_verified = email_verified]

InitLogin ==
    /\ \E status \in StoredStatuses, email_verified \in BOOLEAN, role \in {"user", "admin"} :
           users = <<SeedAdmin, StoredAccount(status, email_verified, role)>>
    /\ session = [s \in Sessions |-> SignedOut]
    /\ tables = [t \in TableNames |-> <<>>]
    /\ listed = [s \in Sessions |-> NothingListed]
    /\ last = NoOp

LoginTimes == {"t1", "t2"}

NextLogin ==
    \/ \E s \in AuthSessions, f \in LoginInputs, now \in LoginTimes :
           Login(s, f[1], f[2], now)
    \/ \E s \in AuthSessions : Logout(s)

SpecLogin == InitLogin /\ [][NextLogin]_vars

(***************************************************************************)
(* register_user when several sessions use the store: the select of the    *)
(* duplicate check and the insert are two calls of the store, and other    *)
(* sessions' calls may come between them.  The users table was created     *)
(* with email UNIQUE, so the store raises on an insert of an e-mail it     *)
(* holds, and register_user returns the failure from its except branch.    *)
(***************************************************************************)
RegisterFailed == "RegisterFailed"

\* an insert that the store takes whatever e-mails it holds
InsertRaises_never(t, data) == FALSE

\* the UNIQUE constraint on users.email
InsertRaises(t, data) == \E k \in 1..Len(t) : t[k].email = data.email

\* the register form up to the duplicate check of register_user: a form that is
\* not let through and an e-mail that is found are answered in this step
RegisterSelect(s, name, email, password, confirm) ==
    /\ OnAuthPage(s)
    /\ listed[s] = NothingListed
    /\ IF name = "" \/ email = "" \/ password = ""
       THEN /\ last' = [success |-> FALSE, msg |-> FormIncomplete, code |-> <<>>,
                        op |-> "register", called |-> FALSE, by |-> s]
            /\ UNCHANGED listed
       ELSE IF ~validate_email(email)
       THEN /\ last' = [success |-> FALSE, msg |-> BadEmailFormat, code |-> <<>>,
                        op |-> "register", called |-> FALSE, by |-> s]
            /\ UNCHANGED listed
       ELSE IF password # confirm
       THEN /\ last' = [success |-> FALSE, msg |-> PasswordMismatch, code |-> <<>>,
                        op |-> "register", called |-> FALSE, by |-> s]
            /\ UNCHANGED listed
       ELSE IF ~validate_password(password)
       THEN /\ last' = [success |-> FALSE, msg |-> WeakPasswordMsg, code |-> <<>>,
                        op |-> "register", called |-> FALSE, by |-> s]
            /\ UNCHANGED listed
       ELSE IF SelectEq(users, [email |-> email]) # <<>>
       THEN /\ last' = [success |-> FALSE, msg |-> DuplicateEmail, code |-> <<>>,
                        op |-> "register", called |-> TRUE, by |-> s]
            /\ UNCHANGED listed
       ELSE /\ last' = [op |-> "register_select", by |-> s]
            /\ listed' = [listed EXCEPT ![s] =
                             [rows |-> <<>>, table |-> "users",
                              form |-> <<name, email, password>>]]
    /\ UNCHANGED <<users, session, tables>>

\* register_user after a duplicate check that found nothing: the code is
\* generated and the row inserted
RegisterInsert(s, draw, cap) ==
    /\ OnAuthPage(s)
    /\ listed[s] # NothingListed
    /\ listed[s].table = "users"
    /\ LET name == listed[s].form[1]
           email == listed[s].form[2]
           password == listed[s].form[3]
           verification_code == generate_verification_code(draw)
           data == [email |-> email, name |-> name,
                    verification_code |-> verification_code,
                    password_hash |-> hash_password(password), role |-> "user",
                    status |-> "pending", email_verified |-> FALSE]
       IN IF InsertRaises(users, data)
          THEN /\ users' = users
               /\ last' = [email |-> email, success |-> FALSE, msg |-> RegisterFailed,
                           code |-> <<>>, op |-> "register", called |-> TRUE, by |-> s]
          ELSE /\ Len(users) < cap
               /\ users' = InsertUser(users, data)
               /\ last' = [email |-> email, success |-> TRUE, msg |-> RegisterOk,
                           code |-> verification_code, op |-> "register", called |-> TRUE,
                           by |-> s]
    /\ listed' = [listed EXCEPT ![s] = NothingListed]
    /\ UNCHANGED <<session, tables>>

(***************************************************************************)
(* Specification of two browser sessions registering on one store          *)
(***************************************************************************)
MaxRegistered == 3      \* rows of the users table while two sessions register

NextRegister ==
    \/ \E s \in Sessions, f \in RegisterInputs : RegisterSelect(s, f[1], f[2], f[3], f[4])
    \/ \E s \in Sessions, d \in RandomDraws : RegisterInsert(s, d, MaxRegistered)

SpecRegister == Init /\ [][NextRegister]_vars

(***************************************************************************)
(* Specification of create and bulk import together: employees are created *)
(* with the form, and sheets whose employee number or name cell may be     *)
(* missing are uploaded to the employees table                             *)
(***************************************************************************)
MaxKeySheetRows == 1    \* rows of an uploaded sheet with a missing cell
MaxMixedRows == 2       \* rows of the employees table

KeySheetRows ==
    {[h_name |-> "Hong", h_code |-> "EMP001", h_hire_date |-> "2024/01/15"],
     [h_name |-> NaN, h_code |-> "EMP001", h_hire_date |-> "2024/01/15"],
     [h_name |-> "Hong", h_code |-> NaN, h_hire_date |-> "2024/01/15"]}

KeySheets == UNION {[1..n -> KeySheetRows] : n \in 0..MaxKeySheetRows}

KeyFiles == {[readable |-> TRUE, sheet |-> sh] : sh \in KeySheets}

NextImportCreate ==
    \/ \E file \in KeyFiles : \E oks \in [1..Len(file.sheet) -> BOOLEAN] :
           ImportEmployees("s1", file, oks, MaxMixedRows)
    \/ \E f \in EmployeeForms(AnyText), ok \in BOOLEAN :
           CreateEmployee("s1", f, ok, MaxMixedRows)

SpecImportCreate == InitCrud /\ [][NextImportCreate]_vars

(***************************************************************************)
(* Properties of the authentication flow                                   *)
(***************************************************************************)
Accounts(us) == {us[i] : i \in 1..Len(us)}

\* the accounts with this e-mail whose stored hash is the hash of this password
Holding(us, email, password) ==
    {a \in Accounts(us) : a.email = email /\ a.password_hash = hash_password(password)}

\* the register form lets the request through to register_user
RegisterFormOk(name, email, password, confirm) ==
    /\ name # "" /\ email # "" /\ password # ""
    /\ validate_email(email)
    /\ password = confirm
    /\ validate_password(password)

IsCode(c) == Len(c) = CodeLen /\ \A i \in 1..Len(c) : c[i] \in 0..(RandBelow - 1)

\* C1: a login succeeds exactly when an account with that e-mail holds the hash
\* of that password, is verified and is approved; a verified account that is
\* still pending gets PendingApproval for its own password.
C1_AuthenticateIff ==
    [][\A f \in KnownEmails \X KnownPasswords, now \in Times :
           (last'.op = "login" /\ Login("s1", f[1], f[2], now)) =>
               /\ last'.success <=>
                      \E a \in Holding(users, f[1], f[2]) :
                          a.email_verified /\ a.status = "approved"
               /\ (\E a \in Holding(users, f[1], f[2]) :
                          a.email_verified /\ a.status = "pending")
                      => last'.msg = PendingApproval
               /\ last'.success => session'["s1"].logged_in]_vars

\* C1 witness: an account that registered is logged in (it was verified with its
\* code and approved by the administrator on the way)
C1_Witness ==
    /\ last.op = "login" /\ last.success
    /\ session["s1"].user_email \in Emails

\* C2 as stated: PendingApproval for every pending account given its own
\* password, and no success for a rejected account
C2_PendingAlwaysReported ==
    [][\A f \in KnownEmails \X KnownPasswords, now \in Times :
           (last'.op = "login" /\ Login("s1", f[1], f[2], now)) =>
               /\ (\E a \in Holding(users, f[1], f[2]) : a.status = "pending")
                      => last'.msg = PendingApproval
               /\ (\E a \in Accounts(users) : a.email = f[1] /\ a.status = "rejected")
                      => ~last'.success]_vars

\* C2 amended: PendingApproval for every pending account whose e-mail is
\* verified, EmailUnverified for a pending account whose e-mail is not, given
\* its own password; no success for a rejected account whatever its other fields
C2_PendingReportedOnceVerified ==
    [][\A f \in KnownEmails \X KnownPasswords, now \in Times :
           (last'.op = "login" /\ Login("s1", f[1], f[2], now)) =>
               /\ \A a \in Holding(users, f[1], f[2]) :
                      a.status = "pending" =>
                          last'.msg = IF a.email_verified THEN PendingApproval
                                                          ELSE EmailUnverified
               /\ (\E a \in Accounts(users) : a.email = f[1] /\ a.status = "rejected")
                      => ~last'.success /\ ~session'["s1"].logged_in]_vars

\* C2 witness: a login was answered PendingApproval
C2_Witness ==
    /\ last.op = "login" /\ last.msg = PendingApproval
    /\ \E a \in Accounts(users) : a.status = "pending" /\ a.email_verified

\* C8: register_user with an e-mail no account has appends exactly one account
\* with that e-mail, pending, unverified, role user, a code of six decimal
\* digits, and returns that code.
C8_RegisterCreatesPending ==
    [][\A f \in RegisterInputs, d \in RandomDraws :
           (/\ last'.op = "register"
            /\ RegisterFormOk(f[1], f[2], f[3], f[4])
            /\ ~\E a \in Accounts(users) : a.email = f[2]
            /\ Register("s1", f[1], f[2], f[3], f[4], d)) =>
               /\ Len(users') = Len(users) + 1
               /\ SubSeq(users', 1, Len(users)) = users
               /\ Cardinality({i \in 1..Len(users') : users'[i].email = f[2]}) = 1
               /\ LET a == users'[Len(users')]
                  IN /\ a.email = f[2]
                     /\ a.status = "pending"
                     /\ a.email_verified = FALSE
                     /\ a.role = "user"
                     /\ IsCode(a.verification_code)
                     /\ last'.success
                     /\ last'.code = a.verification_code]_vars

\* C8 witness: a registration succeeded and its account is in the table
C8_Witness ==
    /\ last.op = "register" /\ last.success
    /\ users[Len(users)].status = "pending"
    /\ users[Len(users)].verification_code = last.code

\* C9: no two accounts share an e-mail, and register_user with an e-mail that an
\* account has answers DuplicateEmail and leaves the users table as it was.
C9_DuplicateEmailRefused ==
    /\ [](\A i, j \in 1..Len(users) : users[i].email = users[j].email => i = j)
    /\ [][\A f \in RegisterInputs, d \in RandomDraws :
              (/\ last'.op = "register"
               /\ RegisterFormOk(f[1], f[2], f[3], f[4])
               /\ \E a \in Accounts(users) : a.email = f[2]
               /\ Register("s1", f[1], f[2], f[3], f[4], d)) =>
                  /\ users' = users
                  /\ ~last'.success
                  /\ last'.msg = DuplicateEmail
                  /\ last'.code = <<>>]_vars

\* C9 witness: a registration was refused as a duplicate of a registered account
C9_Witness ==
    /\ last.op = "register" /\ last.msg = DuplicateEmail
    /\ Len(users) > 1

\* C10: verify_email_code with a code that is not the stored one answers
\* CodeMismatch and leaves the users table as it was; with the stored code it
\* succeeds and the account is verified, nothing else changing.
C10_VerifyNeedsStoredCode ==
    [][\A f \in KnownEmails \X (IssuedCodes \cup {WrongCode}) :
           (last'.op = "verify" /\ VerifyEmail("s1", f[1], f[2])) =>
               IF \E a \in Accounts(users) : a.email = f[1] /\ a.verification_code = f[2]
               THEN /\ last'.success
                    /\ Len(users') = Len(users)
                    /\ \A i \in 1..Len(users) :
                           users'[i] = IF users[i].email = f[1]
                                       THEN [users[i] EXCEPT !.email_verified = TRUE]
                                       ELSE users[i]
               ELSE /\ ~last'.success
                    /\ last'.msg = CodeMismatch
                    /\ users' = users]_vars

\* C10 witness: a verification was refused while the account stays unverified
C10_Witness ==
    /\ last.op = "verify" /\ last.msg = CodeMismatch
    /\ \E a \in Accounts(users) : a.email \in Emails /\ ~a.email_verified


(***************************************************************************)
(* Properties of the entity screens and the gateway                        *)
(***************************************************************************)
Refused == last'.result = MissingRequiredField /\ tables' = tables

\* C3: on each of the six screens, a create with a required field left empty is
\* answered MissingRequiredField and every table is as it was.
C3_BlankRequiredFieldRefused ==
    /\ [][\A f \in EmployeeForms(AnyText), ok \in BOOLEAN :
              (/\ last'.op = "create" /\ last'.table = "employees"
               /\ "" \in {f.employee_code, f.name}
               /\ CreateEmployee("s1", f, ok, MaxRows)) => Refused]_vars
    /\ [][\A f \in PayrollForms(AnyText, OneNumber), ok \in BOOLEAN :
              (/\ last'.op = "create" /\ last'.table = "payroll"
               /\ f.employee_code = ""
               /\ CreatePayroll("s1", f, ok, MaxRows)) => Refused]_vars
    /\ [][\A f \in ClientForms(AnyText), ok \in BOOLEAN :
              (/\ last'.op = "create" /\ last'.table = "clients"
               /\ "" \in {f.client_code, f.client_name}
               /\ CreateClient("s1", f, ok, MaxRows)) => Refused]_vars
    /\ [][\A f \in SalesForms(AnyText, OneNumber), ok \in BOOLEAN :
              (/\ last'.op = "create" /\ last'.table = "sales"
               /\ "" \in {f.sales_no, f.client_code, f.product_name}
               /\ CreateSales("s1", f, ok, MaxRows)) => Refused]_vars
    /\ [][\A f \in PurchaseForms(AnyText, OneNumber), ok \in BOOLEAN :
              (/\ last'.op = "create" /\ last'.table = "purchases"
               /\ "" \in {f.purchase_no, f.supplier_code, f.product_name}
               /\ CreatePurchase("s1", f, ok, MaxRows)) => Refused]_vars
    /\ [][\A f \in TradeForms(AnyText, OneNumber), ok \in BOOLEAN :
              (/\ last'.op = "create" /\ last'.table = "trade_transactions"
               /\ "" \in {f.transaction_no, f.client_code, f.product_name}
               /\ CreateTrade("s1", f, ok, MaxRows)) => Refused]_vars

\* C3 witness: a create was refused for a missing field while rows are stored
C3_Witness ==
    /\ last.op = "create" /\ last.result = MissingRequiredField
    /\ RowCount(tables) > 0

\* C4: after a successful create the list fetched by the rerun is the table as
\* it was before the create followed by the created row, once.
C4_CreatedRowListedOnce ==
    [][(last'.op = "create" /\ last'.result = Created) =>
           LET t == last'.table
               rows == listed'["s1"].rows
               created == last'.data[1]
           IN /\ listed'["s1"].table = t
              /\ rows = Append(tables[t], created)
              /\ Len(rows) = Len(tables[t]) + 1
              /\ rows = tables'[t]]_vars

\* C4 witness: a create succeeded on a table that already held a row
C4_Witness ==
    /\ last.op = "create" /\ last.result = Created
    /\ Len(listed["s1"].rows) > 1

\* C5: every sales, purchase and trade row has amount = quantity * unit_price,
\* and every trade row has krw_amount = amount * exchange_rate.
C5_AmountsDerived ==
    /\ \A i \in 1..Len(tables["sales"]) :
           LET r == tables["sales"][i] IN r.amount = r.quantity * r.unit_price
    /\ \A i \in 1..Len(tables["purchases"]) :
           LET r == tables["purchases"][i] IN r.amount = r.quantity * r.unit_price
    /\ \A i \in 1..Len(tables["trade_transactions"]) :
           LET r == tables["trade_transactions"][i]
           IN /\ r.amount = r.quantity * r.unit_price
              /\ r.krw_amount = r.amount * r.exchange_rate

\* C5 witness: a trade row was created from a quantity, a unit price and an
\* exchange rate that are all different from 0 and 1
C5_Witness ==
    /\ last.op = "create" /\ last.result = Created
    /\ \E i \in 1..Len(tables["trade_transactions"]) :
           LET r == tables["trade_transactions"][i]
           IN r.quantity > 1 /\ r.unit_price > 1 /\ r.exchange_rate > 1

\* C6: every payroll row has net_salary = base_salary + bonus - deduction.
C6_NetSalaryDerived ==
    \A i \in 1..Len(tables["payroll"]) :
        LET r == tables["payroll"][i]
        IN r.net_salary = r.base_salary + r.bonus - r.deduction

\* C6 witness: a payroll row was created whose deduction exceeds base plus bonus
C6_Witness ==
    /\ last.op = "create" /\ last.result = Created
    /\ \E i \in 1..Len(tables["payroll"]) :
           LET r == tables["payroll"][i]
           IN r.deduction > r.base_salary + r.bonus /\ r.net_salary < 0

\* what execute_query returns when the store raises on a filtered update or delete
StoreFailureReturn(table_name, operation) ==
    execute_query(tables, table_name, operation, UpdateData(table_name),
                  KeyFilter(table_name), FALSE).ret

\* C7: an update or delete without filters gives its caller a result that is
\* not the result of a store failure.
C7_MissingFilterTellable ==
    (last.op \in {"update", "delete"} /\ ~last.filtered)
        => last.ret # StoreFailureReturn(last.table, last.op)

(***************************************************************************)
(* Properties of the filtered lists                                        *)
(***************************************************************************)
\* the search text is a literal, case-sensitive substring of the value
IsSubstring(value, search) == re_search_literal(chars(search), chars(value))

\* C11: a filtered list is exactly the rows of the table whose text fields
\* hold every given search text as a literal case-sensitive substring and
\* whose status equals the chosen status.
C11_FilterIsLiteralSubstring ==
    /\ (last.op = "filter" /\ last.table = "employees") =>
           LET keep(r) ==
                   /\ last.search[1] # "" => IsSubstring(r.name, last.search[1])
                   /\ last.search[2] # "" => IsSubstring(r.department, last.search[2])
                   /\ last.search[3] # AllStatuses => r.status = last.search[3]
           IN listed["s1"].rows = SelectSeq(tables["employees"], keep)
    /\ (last.op = "filter" /\ last.table = "clients") =>
           LET keep(r) ==
                   /\ last.search[1] # "" => IsSubstring(r.client_name, last.search[1])
                   /\ last.search[2] # "" => IsSubstring(r.country, last.search[2])
           IN listed["s1"].rows = SelectSeq(tables["clients"], keep)

(***************************************************************************)
(* Properties of the bulk import                                           *)
(***************************************************************************)
\* the file is read and a cell of its date column is a text that is no date
HasBadDate(file) ==
    /\ file.readable
    /\ \E i \in 1..Len(file.sheet) : to_datetime_raises(file.sheet[i].h_hire_date)

\* the file is read and every cell of its date column is a date or missing
Parses(file) ==
    /\ file.readable
    /\ \A i \in 1..Len(file.sheet) : ~to_datetime_raises(file.sheet[i].h_hire_date)

\* the records the store accepted, in order
RECURSIVE Accepted(_, _)
Accepted(records, oks) ==
    IF records = <<>> THEN <<>>
    ELSE (IF Head(oks) THEN <<Head(records)>> ELSE <<>>) \o Accepted(Tail(records), Tail(oks))

\* C12: an import of N rows of which one has an unparseable date still issues
\* an insert for every row and returns (succeeded, N).
C12_BadDateRowsStillInserted ==
    (last.op = "import" /\ HasBadDate(last.file)) =>
        /\ Len(last.inserts) = Len(last.file.sheet)
        /\ last.total = Len(last.file.sheet)
        /\ last.success_count <= last.total

\* C13: an import of a file that parses issues one insert per row in file
\* order, returns (succeeded, total) with total the number of rows and
\* succeeded the number of inserts that returned data, and the table grows by
\* the accepted rows only, those before and after a refused row included.
C13_ImportCountsAcceptedRows ==
    [][(last'.op = "import" /\ Parses(last'.file)) =>
           LET n == Len(last'.file.sheet)
               done == last'.inserts
           IN /\ last'.total = n
              /\ Len(done) = n
              /\ \A i \in 1..n :
                     /\ done[i].employee_code = last'.file.sheet[i].h_code
                     /\ done[i].hire_date =
                            IF last'.file.sheet[i].h_hire_date = NaN THEN "" ELSE "2024-01-15"
              /\ last'.success_count = Cardinality({i \in 1..n : last'.oks[i]})
              /\ 0 <= last'.success_count /\ last'.success_count <= last'.total
              /\ Len(tables'["employees"]) = Len(tables["employees"]) + last'.success_count
              /\ tables'["employees"] = tables["employees"] \o Accepted(done, last'.oks)]_vars

\* C13 witness: an import of two rows whose first insert was refused and whose
\* second was accepted, into a table that already held a row
C13_Witness ==
    /\ last.op = "import" /\ Parses(last.file)
    /\ last.total = 2 /\ last.success_count = 1
    /\ ~last.oks[1] /\ last.oks[2]
    /\ Len(tables["employees"]) = 2

(***************************************************************************)
(* Properties of the gate and of two sessions on one store                 *)
(***************************************************************************)
\* the step is a handler of the authentication page run by session s
AuthHandler(s) ==
    \/ \E f \in SessionLogins, now \in Times : Login(s, f[1], f[2], now)
    \/ \E d \in ApplicantDraws :
           Register(s, Applicant[1], Applicant[2], Applicant[3], Applicant[4], d)
    \/ \E d \in ApplicantDraws : VerifyEmail(s, Applicant[2], generate_verification_code(d))

\* the step is a handler of the user management run by session s
AdminHandler(s) ==
    \/ SelectPending(s)
    \/ \E i \in 1..MaxUsers, now \in Times : ClickApprove(s, i, now)
    \/ \E i \in 1..MaxUsers : ClickReject(s, i)
    \/ \E i \in 1..MaxUsers, r \in {"user", "admin"} : SetRole(s, i, r)

\* C14: a session that is not logged in gets the authentication page for every
\* menu entry and only such a session runs its handlers; a list is rendered
\* only for a logged-in session; the user management is in the menu of, and
\* its handlers run for, sessions of role admin only.
C14_GateRoutes ==
    /\ [](\A s \in Sessions :
              /\ ~session[s].logged_in =>
                     \A m \in WorkflowPages \cup {UserManagementPage} :
                         main(session[s], m) = AuthPage
              /\ session[s].logged_in =>
                     /\ \A m \in WorkflowPages : main(session[s], m) = m
                     /\ UserManagementPage \in menu_items(session[s])
                            <=> session[s].user_role = "admin"
                     /\ main(session[s], UserManagementPage) = UserManagementPage
                            <=> session[s].user_role = "admin")
    /\ [][\A s \in Sessions :
              /\ AuthHandler(s) => ~session[s].logged_in
              /\ List(s, "employees") => session[s].logged_in
              /\ listed'[s] # listed[s] => session[s].logged_in
              /\ AdminHandler(s) =>
                     session[s].logged_in /\ session[s].user_role = "admin"
              /\ (listed'[s] # listed[s] /\ listed'[s].table = "users") =>
                     session[s].user_role = "admin"]_vars

\* C14 witness: one session has the pending accounts rendered while the other
\* is logged in with role user and has a list rendered
C14_Witness ==
    \E s, t \in Sessions :
        /\ last.op = "select_pending" /\ last.by = s
        /\ listed[s].table = "users"
        /\ session[t].logged_in /\ session[t].user_role = "user"
        /\ listed[t].table = "employees"

\* C15: every session that is routed to the workflow screens belongs to an
\* account whose stored status is approved.
C15_WorkflowOnlyForApproved ==
    \A s \in Sessions :
        OnWorkflowScreen(s) =>
            \E a \in Accounts(users) :
                a.email = session[s].user_email /\ a.status = "approved"

\* C19: the update of an approve or reject click is applied to the account of
\* the clicked row whatever its status has become since the click's run
\* selected it, so the later of two decisions is the one that stays.
C19_LaterDecisionStays ==
    [][last'.op \in {"click_approve", "click_reject"} =>
           /\ Len(users') = Len(users)
           /\ \A k \in 1..Len(users) :
                  users[k].id = last'.id =>
                      users'[k].status =
                          IF last'.op = "click_approve" THEN "approved" ELSE "rejected"]_vars

\* C19 witness: an account both sessions selected as pending was approved by
\* one and then rejected by the other
C19_Witness ==
    /\ last.op = "click_reject"
    /\ \E a \in Accounts(users) :
           a.id = last.id /\ a.status = "rejected" /\ a.approved_at # NULL

(***************************************************************************)
(* Properties of the account fields, one handler at a time                 *)
(***************************************************************************)
\* the account of that id, as a set of at most one
AccountOf(us, id) == {a \in Accounts(us) : a.id = id}

\* C16: a new account is pending; a status that is approved or rejected is
\* never changed again; the accounts offered for approve / reject, and the
\* account an approve or reject is made on, are pending with a verified e-mail.
C16_StatusDecidedOnce ==
    /\ [](\A i \in 1..Len(pending_users(users)) :
              /\ pending_users(users)[i].status = "pending"
              /\ pending_users(users)[i].email_verified)
    /\ [][/\ Len(users') >= Len(users)
          /\ \A k \in 1..Len(users) :
                 users[k].status # "pending" => users'[k].status = users[k].status
          /\ \A k \in (Len(users) + 1)..Len(users') : users'[k].status = "pending"
          /\ last'.op \in {"approve", "reject"} =>
                 \A a \in AccountOf(users, last'.id) :
                     a.status = "pending" /\ a.email_verified]_vars

\* C16 witness: an account that was approved has had its role changed since
C16_Witness ==
    /\ last.op = "set_role"
    /\ \E a \in Accounts(users) :
           a.id # SeedAdmin.id /\ a.email = last.email /\ a.status = "approved"

\* C17: the role or the status of an account changes only in an approve,
\* reject or set-role step of a session that is logged in with session role
\* admin; an account is created with role user and status pending.
C17_OnlyAdminSessionsDecide ==
    [][/\ (\E k \in 1..Len(users) :
               users'[k].role # users[k].role \/ users'[k].status # users[k].status)
              => /\ session["s1"].logged_in
                 /\ session["s1"].user_role = "admin"
                 /\ last'.op \in {"approve", "reject", "set_role"}
       /\ \A k \in (Len(users) + 1)..Len(users') :
              users'[k].role = "user" /\ users'[k].status = "pending"]_vars

\* C17 witness: an administrator's session has made a registered account an
\* administrator
C17_Witness ==
    /\ last.op = "set_role"
    /\ session["s1"].user_role = "admin"
    /\ \E a \in Accounts(users) :
           a.id # SeedAdmin.id /\ a.email = last.email /\ a.role = "admin"

\* C18: an account is created unverified, becomes verified only in a verify
\* step given its e-mail and its stored code, and once verified stays verified.
C18_VerifiedStaysVerified ==
    [][/\ \A k \in 1..Len(users) :
              /\ users[k].email_verified => users'[k].email_verified
              /\ (~users[k].email_verified /\ users'[k].email_verified) =>
                     /\ last'.op = "verify" /\ last'.success
                     /\ VerifyEmail("s1", users[k].email, users[k].verification_code)
       /\ \A k \in (Len(users) + 1)..Len(users') : ~users'[k].email_verified]_vars

\* C18 witness: a new code was sent to an account that is verified
C18_Witness ==
    /\ last.op = "resend" /\ last.success
    /\ \E a \in Accounts(users) :
           a.id # SeedAdmin.id /\ a.email_verified /\ a.verification_code = last.code

\* C20 as stated: an approve or reject changes the status of the account of
\* that id and nothing else.
C20_ApprovalWritesStatusOnly ==
    [][last'.op \in {"approve", "reject"} =>
           \A k \in 1..Len(users) :
               users'[k] =
                   IF users[k].id = last'.id
                   THEN [users[k] EXCEPT
                            !.status = IF last'.op = "approve" THEN "approved" ELSE "rejected"]
                   ELSE users[k]]_vars

\* C20 amended: a reject changes the status of the account of that id and
\* nothing else; an approve changes its status and sets its approved_at to the
\* time of the approval, and nothing else.
C20_ApprovalWritesStatusAndTime ==
    [][last'.op \in {"approve", "reject"} =>
           /\ Len(users') = Len(users)
           /\ \A k \in 1..Len(users) :
                  IF users[k].id # last'.id THEN users'[k] = users[k]
                  ELSE IF last'.op = "reject"
                  THEN users'[k] = [users[k] EXCEPT !.status = "rejected"]
                  ELSE \E now \in Times :
                           users'[k] = [users[k] EXCEPT !.approved_at = now,
                                                        !.status = "approved"]]_vars

\* C20 witness: a registered account was rejected
C20_Witness ==
    /\ last.op = "reject"
    /\ \E a \in AccountOf(users, last.id) :
           a.status = "rejected" /\ a.approved_at = NULL /\ a.email_verified

(***************************************************************************)
(* Properties of the login form                                            *)
(***************************************************************************)
\* C21: a login that succeeds changes last_login of the account that logged
\* in and nothing else in the users table; a login that fails, for whatever
\* reason, leaves the users table as it was and the session signed out with
\* no identity.
C21_LoginWritesLastLoginOnly ==
    [][\A f \in LoginInputs, now \in LoginTimes :
           Login("s1", f[1], f[2], now) =>
               IF last'.success
               THEN /\ session'["s1"].logged_in
                    /\ session'["s1"].user_email = f[1]
                    /\ Len(users') = Len(users)
                    /\ \A k \in 1..Len(users) :
                           users'[k] = IF users[k].email = f[1]
                                       THEN [users[k] EXCEPT !.last_login = now]
                                       ELSE users[k]
               ELSE /\ users' = users
                    /\ session'["s1"] = SignedOut]_vars

\* C21 witness: the stored account has logged in, the administrator never has
C21_Witness ==
    /\ last.op = "login" /\ last.success
    /\ session["s1"].user_email = "a@b.com"
    /\ users[2].last_login \in LoginTimes
    /\ users[1].last_login = NULL

\* C23: a login reports the first failure that applies, in the order
\* InvalidCredentials (no account has that e-mail with the hash of that
\* password), EmailUnverified, PendingApproval, Rejected, unknown status; a wrong
\* password is answered InvalidCredentials whatever the state of the account.
C23_FirstFailureReported ==
    [][\A f \in LoginInputs, now \in LoginTimes :
           (last'.op = "login" /\ Login("s1", f[1], f[2], now)) =>
               LET held == Holding(users, f[1], f[2])
               IN /\ last'.msg = InvalidCredentials <=> held = {}
                  /\ last'.msg = EmailUnverified <=> \E a \in held : ~a.email_verified
                  /\ last'.msg = PendingApproval <=>
                         \E a \in held : a.email_verified /\ a.status = "pending"
                  /\ last'.msg = Rejected <=>
                         \E a \in held : a.email_verified /\ a.status = "rejected"
                  /\ last'.msg = UnknownStatus <=>
                         \E a \in held : /\ a.email_verified
                                         /\ a.status \notin {"pending", "rejected", "approved"}
                  /\ (\E a \in Accounts(users) :
                          a.email = f[1] /\ a.password_hash # hash_password(f[2]))
                         => last'.msg = InvalidCredentials /\ ~last'.success]_vars

\* C23 witness: an account that is both unverified and pending was answered
\* EmailUnverified
C23_Witness ==
    /\ last.op = "login" /\ last.msg = EmailUnverified
    /\ users[2].status = "pending" /\ ~users[2].email_verified

(***************************************************************************)
(* Properties of the account table and the sessions                        *)
(***************************************************************************)
\* C24: in every reachable state an account whose status is approved or
\* rejected has a verified e-mail.
C24_DecidedAccountsAreVerified ==
    \A a \in Accounts(users) : a.status \in {"approved", "rejected"} => a.email_verified

\* C24 witness: an administrator's session has rejected the account that registered
C24_Witness ==
    /\ last.op = "click_reject"
    /\ \E a \in Accounts(users) :
           a.id = last.id /\ a.id # SeedAdmin.id /\ a.status = "rejected"

\* C25: a session is either not logged in with e-mail, name, role and status
\* all None, and then every menu entry gives the authentication page, or it is
\* logged in with the e-mail, name, role and status of the account its login
\* returned; a session changes only by a login that succeeds and by a logout,
\* and a logout leaves it not logged in with all four None.
C25_SessionConsistent ==
    /\ [](\A s \in Sessions :
              IF ~session[s].logged_in
              THEN /\ session[s] = SignedOut
                   /\ \A m \in WorkflowPages \cup {UserManagementPage} :
                          main(session[s], m) = AuthPage
              ELSE /\ \E a \in Accounts(users) :
                          a.email = session[s].user_email /\ a.name = session[s].user_name
                   /\ session[s].user_role \in {"user", "admin"}
                   /\ session[s].user_status = "approved")
    /\ [][\A s \in Sessions :
              /\ Logout(s) => session'[s] = SignedOut
              /\ session'[s] # session[s] =>
                     \/ Logout(s)
                     \/ /\ ~session[s].logged_in
                        /\ last'.op = "login" /\ last'.success
                        /\ \E a \in Accounts(users) :
                               /\ a.email_verified /\ a.status = "approved"
                               /\ session'[s] = LoggedInAs(a)]_vars

\* C25 witness: one session has logged out while the other is logged in as the
\* account that registered
C25_Witness ==
    \E s, t \in Sessions :
        /\ last.op = "logout"
        /\ session[s] = SignedOut
        /\ session[t].logged_in /\ session[t].user_email = Applicant[2]
        /\ \E a \in Accounts(users) : a.email = AdminEmail /\ a.last_login # NULL

\* C26: whenever a logged-in session is given the user management, the role
\* stored for the account of that session is admin.
C26_UserManagementOnlyForStoredAdmins ==
    \A s \in Sessions :
        (/\ session[s].logged_in
         /\ UserManagementPage \in menu_items(session[s])
         /\ main(session[s], UserManagementPage) = UserManagementPage)
            => \E a \in Accounts(users) :
                   a.email = session[s].user_email /\ a.role = "admin"

\* C27: a resend for a registered e-mail stores a new code of six digits in
\* the account of that e-mail and changes nothing else; after it a verify of
\* that e-mail succeeds with the new code and fails with the old code when the
\* two differ; a resend for an e-mail that is not registered fails and leaves
\* the users table as it was.
C27_ResendReplacesCodeOnly ==
    [][\A e \in ResendInputs, d \in RandomDraws :
           (last'.op = "resend" /\ ResendCode("s1", e, d)) =>
               IF \E a \in Accounts(users) : a.email = e
               THEN /\ last'.success
                    /\ IsCode(last'.code)
                    /\ Len(users') = Len(users)
                    /\ \A k \in 1..Len(users) :
                           users'[k] = IF users[k].email = e
                                       THEN [users[k] EXCEPT !.verification_code = last'.code]
                                       ELSE users[k]
                    /\ verify_email_code(users', e, last'.code).success
                    /\ \A a \in Accounts(users) :
                           (a.email = e /\ a.verification_code # last'.code) =>
                               ~verify_email_code(users', e, a.verification_code).success
               ELSE /\ ~last'.success
                    /\ users' = users]_vars

\* C27 witness: a new code was sent to an account that is not verified yet
C27_Witness ==
    /\ last.op = "resend" /\ last.success
    /\ \E a \in Accounts(users) :
           a.id # SeedAdmin.id /\ ~a.email_verified /\ a.verification_code = last.code

KeyTaken(table_name, key, value) ==
    \E k \in 1..Len(tables[table_name]) : tables[table_name][k][key] = value

Appended(table_name, data) ==
    /\ last'.result = Created
    /\ tables' = [tables EXCEPT ![table_name] = Append(@, data)]

\* C22: a create whose business key (employee_code, client_code, sales_no,
\* purchase_no, transaction_no) is the key of a stored row, whose required
\* fields are filled and which the store accepts, is answered Created and
\* appends its row: the application makes no uniqueness check.
C22_DuplicateKeyCreated ==
    /\ [][\A f \in EmployeeForms(FilledText) :
              (/\ last'.op = "create" /\ last'.table = "employees"
               /\ KeyTaken("employees", "employee_code", f.employee_code)
               /\ CreateEmployee("s1", f, TRUE, MaxRows))
                  => Appended("employees", employee_data(f))]_vars
    /\ [][\A f \in ClientForms(FilledText) :
              (/\ last'.op = "create" /\ last'.table = "clients"
               /\ KeyTaken("clients", "client_code", f.client_code)
               /\ CreateClient("s1", f, TRUE, MaxRows))
                  => Appended("clients", client_data(f))]_vars
    /\ [][\A f \in SalesForms(FilledText, OneNumber) :
              (/\ last'.op = "create" /\ last'.table = "sales"
               /\ KeyTaken("sales", "sales_no", f.sales_no)
               /\ CreateSales("s1", f, TRUE, MaxRows))
                  => Appended("sales", sales_data(f))]_vars
    /\ [][\A f \in PurchaseForms(FilledText, OneNumber) :
              (/\ last'.op = "create" /\ last'.table = "purchases"
               /\ KeyTaken("purchases", "purchase_no", f.purchase_no)
               /\ CreatePurchase("s1", f, TRUE, MaxRows))
                  => Appended("purchases", purchase_data(f))]_vars
    /\ [][\A f \in TradeForms(FilledText, OneNumber) :
              (/\ last'.op = "create" /\ last'.table = "trade_transactions"
               /\ KeyTaken("trade_transactions", "transaction_no", f.transaction_no)
               /\ CreateTrade("s1", f, TRUE, MaxRows))
                  => Appended("trade_transactions", trade_data(f))]_vars

\* C22 witness: two employees created one after the other share an employee number
C22_Witness ==
    /\ last.op = "create" /\ last.result = Created
    /\ Len(tables["employees"]) = 2
    /\ tables["employees"][1].employee_code = tables["employees"][2].employee_code

(***************************************************************************)
(* Properties of the bulk import and the create form together              *)
(***************************************************************************)
\* C29: whatever was created and imported, every row of the employees table
\* has an employee number and a name that are not blank.
C29_StoredRowsHaveRequiredFields ==
    \A k \in 1..Len(tables["employees"]) :
        /\ tables["employees"][k].employee_code # ""
        /\ tables["employees"][k].name # ""

\* C30: an import answers (0, 0) for a file that is unreadable or has rows
\* only when the file could not be read or a date cell could not be converted,
\* and then no insert was issued and every table is as it was; once an insert
\* was issued the total returned is the number of rows of the file and the
\* table has grown by exactly the count returned, whichever inserts failed.
C30_ZeroZeroOnlyBeforeFirstInsert ==
    [][last'.op = "import" =>
           LET file == last'.file
           IN /\ (/\ last'.success_count = 0 /\ last'.total = 0
                  /\ (file.sheet # <<>> \/ ~file.readable)) =>
                     /\ ~Parses(file)
                     /\ last'.shown = UploadError
                     /\ last'.inserts = <<>>
                     /\ tables' = tables
              /\ last'.inserts # <<>> =>
                     /\ last'.shown = NoError
                     /\ last'.total = Len(file.sheet)
                     /\ last'.total > 0
                     /\ Len(tables'["employees"]) =
                            Len(tables["employees"]) + last'.success_count]_vars

\* C30 witness: an import of two rows whose inserts were both refused answered
\* (0, 2)
C30_Witness ==
    /\ last.op = "import"
    /\ Len(last.inserts) = 2 /\ last.oks = <<FALSE, FALSE>>
    /\ last.success_count = 0 /\ last.total = 2

====
